---- MODULE Spec2Model ----
(***************************************************************************)
(* Model of mem0's Azure OpenAI LLM adapter (mem0/llms/azure_openai.py)    *)
(* and of the embedder configuration's credential resolver                 *)
(* (mem0/configs/embeddings/base.py).                                      *)
(*                                                                         *)
(* Python values are represented as follows.                               *)
(*   Optional[str]       a string, None being the sentinel  None           *)
(*   str (message text)  a sequence of one-character strings               *)
(*   api_key             a record [kind, value]: PyNone, Str(s), or        *)
(*                       Callable(f), a zero-argument function object      *)
(*   Optional[list]      a record [some, v]                                *)
(*   dict                a function from key strings to values             *)
(***************************************************************************)
EXTENDS Integers, Sequences, FiniteSets, TLC

VARIABLES
    config,      \* the BaseLlmConfig instance handed to the adapter
    env,         \* os.environ, restricted to the variables the adapter reads
    adapter,     \* the AzureOpenAILLM instance: its private fields
    token,       \* the value the credential callable returns when invoked now
    callArgs,    \* what the caller passed to the last generate_response
    client,      \* the AzureOpenAI client built by the last _get_client
    request,     \* the params dict of the last chat.completions.create call
    netCalls,    \* number of chat.completions.create calls of the last invocation
    extractLog,  \* the texts handed to extract_json by the last invocation
    outcome,     \* how the last generate_response ended: return value or error
    envAtInit,   \* os.environ as it was when AzureOpenAILLM.__init__ ran
    invocations, \* number of generate_response invocations so far
    embedder,    \* the BaseEmbedderConfig instance
    produced,    \* the values the embedder's api_key callable has produced
    returned     \* the values get_api_key() has returned, in call order

vars == <<config, env, adapter, token, callArgs, client, request, netCalls,
          extractLog, outcome, envAtInit, invocations, embedder, produced, returned>>

llmVars == <<config, env, adapter, callArgs, client, request, netCalls,
             extractLog, outcome, envAtInit, invocations>>

embVars == <<embedder, produced, returned>>

----------------------------------------------------------------------------
(* Python values *)

None == "<None>"

\* bool(v) of an Optional[str]
Truthy(v) == v # None /\ v # ""

\* a or b
Or(a, b) == IF Truthy(a) THEN a ELSE b

PyNone == [kind |-> "none", value |-> None]

Str(s) == [kind |-> "str", value |-> s]

Callable(f) == [kind |-> "callable", value |-> f]

\* bool(k) of an api_key value; a function object is truthy
TruthyKey(k) == k.kind = "callable" \/ (k.kind = "str" /\ k.value # "")

OrKey(a, b) == IF TruthyKey(a) THEN a ELSE b

NoList == [some |-> FALSE, v |-> <<>>]

List(s) == [some |-> TRUE, v |-> s]

\* bool(l) of an Optional[list]
TruthyList(l) == l.some /\ Len(l.v) > 0

Last(s) == s[Len(s)]

----------------------------------------------------------------------------
(* Bounds *)

MaxKeyCalls == 3

MaxCalls == 2

MaxMsgs == 2

MaxFrags == 2

MaxToolCalls == 2

----------------------------------------------------------------------------
(* BaseEmbedderConfig *)

Keys == {"k1", "k2"}

Tokens == {"tokA", "tokB"}

ApiKeys == {PyNone, Callable("token_provider")} \cup {Str(k) : k \in Keys}

\* httpx.Client(proxies=http_client_proxies) if http_client_proxies else None
HttpClientFor(proxies) == IF Truthy(proxies) THEN "httpx.Client(" \o proxies \o ")" ELSE None

EmbedderConfig(model, api_key, proxies) ==
    [model |-> model, api_key |-> api_key, http_client |-> HttpClientFor(proxies)]

\* a cached resolver: the first value ever produced is returned for ever
get_api_key_cached(api_key, results) ==
    IF api_key.kind = "none" THEN None
    ELSE IF api_key.kind = "callable" THEN Head(results)
    ELSE api_key.value

\* get_api_key: results are the values produced by the callable so far, the
\* last one being the value of the self.api_key() call made by this resolution
get_api_key(api_key, results) ==
    IF api_key.kind = "none" THEN None
    ELSE IF api_key.kind = "callable" THEN Last(results)
    ELSE api_key.value

\* A call of embedder.get_api_key()
GetApiKey ==
    /\ Len(returned) < MaxKeyCalls
    /\ produced' = IF embedder.api_key.kind = "callable"
                   THEN Append(produced, token) ELSE produced
    /\ returned' = Append(returned, get_api_key(embedder.api_key, produced'))
    /\ UNCHANGED <<embedder, token, llmVars>>

\* The credential source behind the callable issues a new token
RotateToken ==
    /\ \E t \in Tokens \ {token} : token' = t
    /\ UNCHANGED <<embVars, llmVars>>

----------------------------------------------------------------------------
(* Text: str.replace, JSON parsing, the extract_json collaborator *)

Assistant == <<"a", "s", "s", "i", "s", "t", "a", "n", "t">>

Ai == <<"a", "i">>

\* s[i:].startswith(old), 1-based
StartsWithAt(s, i, old) ==
    /\ i + Len(old) - 1 <= Len(s)
    /\ \A j \in 1..Len(old) : s[i + j - 1] = old[j]

RECURSIVE ReplaceFrom(_, _, _, _)
ReplaceFrom(s, i, old, new) ==
    IF i > Len(s) THEN <<>>
    ELSE IF StartsWithAt(s, i, old)
         THEN new \o ReplaceFrom(s, i + Len(old), old, new)
         ELSE <<s[i]>> \o ReplaceFrom(s, i + 1, old, new)

\* s.replace(old, new) for a non-empty old: every non-overlapping
\* occurrence, scanning from the left
Replace(s, old, new) == ReplaceFrom(s, 1, old, new)

\* An argument text is [form, val]: "valid" is the JSON text of the object
\* val, "repairable" is that text in a shape extract_json can salvage,
\* "broken" is text nothing can make JSON of.
JsonVals == {"j1", "j2"}

ArgTexts ==
    [form : {"valid"}, val : JsonVals]
        \cup {[form |-> "repairable", val |-> "j1"], [form |-> "broken", val |-> "j2"]}

\* json.loads(text) succeeds
Parses(text) == text.form = "valid"

\* json.loads(text), for a text that parses: the decoded object
json_loads(text) == [object |-> text.val]

\* mem0.memory.utils.extract_json
extract_json(text) ==
    IF text.form = "repairable" THEN [form |-> "valid", val |-> text.val] ELSE text

----------------------------------------------------------------------------
(* AzureOpenAILLM *)

EnvNames == {"LLM_AZURE_DEPLOYMENT", "LLM_AZURE_ENDPOINT",
             "LLM_AZURE_API_VERSION", "LLM_AZURE_OPENAI_API_KEY"}

EnvValues == {None, "from-env"}

\* os.getenv(name)
getenv(e, name) == e[name]

\* os.getenv(name) as an api_key value
getenvKey(e, name) == IF e[name] = None THEN PyNone ELSE Str(e[name])

ReasoningModels == {"o3-mini", "o1-preview", "o1"}

NotConstructed ==
    [constructed |-> FALSE, _azure_deployment |-> None, _azure_endpoint |-> None,
     _api_version |-> None, _default_headers |-> None, _http_client |-> None]

\* a constructor that overwrites the caller's model
DefaultModelAlways(model) == "gpt-4o"

\* if not self.config.model: self.config.model = "gpt-4o"
DefaultModel(model) == IF Truthy(model) THEN model ELSE "gpt-4o"

\* AzureOpenAILLM.__init__(config)
Construct ==
    /\ ~adapter.constructed
    /\ config' = [config EXCEPT !.model = DefaultModel(config.model)]
    /\ adapter' =
         [constructed |-> TRUE,
          _azure_deployment |-> Or(config.azure_kwargs.azure_deployment,
                                   getenv(env, "LLM_AZURE_DEPLOYMENT")),
          _azure_endpoint |-> Or(config.azure_kwargs.azure_endpoint,
                                 getenv(env, "LLM_AZURE_ENDPOINT")),
          _api_version |-> Or(config.azure_kwargs.api_version,
                              getenv(env, "LLM_AZURE_API_VERSION")),
          _default_headers |-> config.azure_kwargs.default_headers,
          _http_client |-> config.http_client]
    /\ envAtInit' = env
    /\ UNCHANGED <<env, token, callArgs, client, request, netCalls, extractLog,
                   outcome, invocations, embVars>>

\* a client whose connection settings fall back to the environment per call
get_client_lazy_env(cfg, adp, e) ==
    [azure_deployment |-> Or(cfg.azure_kwargs.azure_deployment,
                             getenv(e, "LLM_AZURE_DEPLOYMENT")),
     azure_endpoint |-> Or(cfg.azure_kwargs.azure_endpoint,
                           getenv(e, "LLM_AZURE_ENDPOINT")),
     api_version |-> Or(cfg.azure_kwargs.api_version,
                        getenv(e, "LLM_AZURE_API_VERSION")),
     api_key |-> OrKey(cfg.azure_kwargs.api_key,
                       getenvKey(e, "LLM_AZURE_OPENAI_API_KEY")),
     http_client |-> adp._http_client,
     default_headers |-> adp._default_headers]

\* AzureOpenAILLM._get_client(): the keyword arguments of AzureOpenAI(...)
_get_client(cfg, adp, e) ==
    [azure_deployment |-> adp._azure_deployment,
     azure_endpoint |-> adp._azure_endpoint,
     api_version |-> adp._api_version,
     api_key |-> OrKey(cfg.azure_kwargs.api_key,
                       getenvKey(e, "LLM_AZURE_OPENAI_API_KEY")),
     http_client |-> adp._http_client,
     default_headers |-> adp._default_headers]

\* "assistant" is replaced in every message
SubstituteAll(messages) ==
    [i \in 1..Len(messages) |->
        [messages[i] EXCEPT !.content = Replace(@, Assistant, Ai)]]

\* messages[-1]["content"] = messages[-1]["content"].replace("assistant", "ai")
SubstituteLast(messages) ==
    [messages EXCEPT ![Len(messages)].content = Replace(@, Assistant, Ai)]

\* the o1 family is matched loosely, "o1-mini" included
IsReasoningLoose(model) == model \in ReasoningModels \cup {"o1-mini"}

\* self.config.model in {"o3-mini", "o1-preview", "o1"}
IsReasoning(model) == model \in ReasoningModels

Sampling(cfg) ==
    ("temperature" :> cfg.temperature) @@ ("max_tokens" :> cfg.max_tokens)
        @@ ("top_p" :> cfg.top_p)

\* tools are forwarded whenever the argument is not None
WithToolsIfNotNone(params, tools, tool_choice) ==
    IF tools.some
    THEN params @@ ("tools" :> tools.v) @@ ("tool_choice" :> tool_choice)
    ELSE params

\* if tools: params["tools"] = tools; params["tool_choice"] = tool_choice
WithTools(params, tools, tool_choice) ==
    IF TruthyList(tools)
    THEN params @@ ("tools" :> tools.v) @@ ("tool_choice" :> tool_choice)
    ELSE params

\* if response_format: params["response_format"] = response_format
WithResponseFormat(params, response_format) ==
    IF Truthy(response_format)
    THEN params @@ ("response_format" :> response_format)
    ELSE params

\* the params dict generate_response hands to chat.completions.create
BuildParams(cfg, messages, response_format, tools, tool_choice) ==
    LET common == ("model" :> cfg.model) @@ ("messages" :> messages)
        params == IF IsReasoning(cfg.model) THEN common
                  ELSE common @@ Sampling(cfg)
    IN  WithTools(WithResponseFormat(params, response_format), tools, tool_choice)

\* a loop that skips a tool call whose arguments do not parse
RECURSIVE AppendToolCallsSkipping(_, _, _)
AppendToolCallsSkipping(calls, acc, log) ==
    IF calls = <<>> THEN [raised |-> None, tool_calls |-> acc, log |-> log]
    ELSE LET tool_call == Head(calls)
             text == extract_json(tool_call.arguments)
             log2 == Append(log, tool_call.arguments)
         IN  IF ~Parses(text)
             THEN AppendToolCallsSkipping(Tail(calls), acc, log2)
             ELSE AppendToolCallsSkipping(Tail(calls),
                      Append(acc, [name |-> tool_call.name,
                                   arguments |-> json_loads(text)]), log2)

\* the for loop of _parse_response: each reported call is appended in turn,
\* its arguments being json.loads(extract_json(arguments)); json.loads raising
\* ends the loop. log collects the texts handed to extract_json.
RECURSIVE AppendToolCalls(_, _, _)
AppendToolCalls(calls, acc, log) ==
    IF calls = <<>> THEN [raised |-> None, tool_calls |-> acc, log |-> log]
    ELSE LET tool_call == Head(calls)
             text == extract_json(tool_call.arguments)
             log2 == Append(log, tool_call.arguments)
         IN  IF ~Parses(text)
             THEN [raised |-> "JSONDecodeError", tool_calls |-> acc, log |-> log2]
             ELSE AppendToolCalls(Tail(calls),
                      Append(acc, [name |-> tool_call.name,
                                   arguments |-> json_loads(text)]), log2)

\* AzureOpenAILLM._parse_response(response, tools): the outcome and the
\* texts handed to extract_json
_parse_response(response, tools) ==
    IF TruthyList(tools)
    THEN LET loop == IF TruthyList(response.tool_calls)
                     THEN AppendToolCalls(response.tool_calls.v, <<>>, <<>>)
                     ELSE [raised |-> None, tool_calls |-> <<>>, log |-> <<>>]
         IN  [outcome |-> IF loop.raised # None
                          THEN [kind |-> "raise", error |-> loop.raised]
                          ELSE [kind |-> "return", type |-> "dict",
                                content |-> response.content,
                                tool_calls |-> loop.tool_calls],
              log |-> loop.log]
    ELSE [outcome |-> [kind |-> "return", type |-> "str",
                       content |-> response.content],
          log |-> <<>>]

\* a create call that is retried once when the vendor raises
create_with_retry(vendor) ==
    [calls |-> IF vendor.raises # None THEN 2 ELSE 1, raised |-> vendor.raises]

\* client.chat.completions.create(**params): the calls issued and the error
\* the vendor raised, if any
create(vendor) == [calls |-> 1, raised |-> vendor.raises]

\* AzureOpenAILLM.generate_response(messages, response_format, tools,
\* tool_choice), the vendor answering with vendor. messages is non-empty
\* (messages[-1] is read before anything is sent).
generate_response(messages, response_format, tools, tool_choice, vendor) ==
    /\ adapter.constructed
    /\ invocations < MaxCalls
    /\ invocations' = invocations + 1
    /\ Len(messages) > 0
    /\ LET sent == SubstituteLast(messages)
           call == create(vendor)
           parsed == _parse_response(vendor, tools)
       IN  /\ client' = _get_client(config, adapter, env)
           /\ request' = BuildParams(config, sent, response_format, tools, tool_choice)
           /\ netCalls' = call.calls
           /\ outcome' = IF call.raised # None
                         THEN [kind |-> "raise", error |-> call.raised]
                         ELSE parsed.outcome
           /\ extractLog' = IF call.raised # None THEN <<>> ELSE parsed.log
    /\ callArgs' = [messages |-> messages, response_format |-> response_format,
                    tools |-> tools, tool_choice |-> tool_choice, vendor |-> vendor]
    /\ UNCHANGED <<config, env, adapter, token, envAtInit, embVars>>

\* os.environ[name] = v, or del os.environ[name], by the process
SetEnv ==
    /\ \E name \in EnvNames : \E v \in EnvValues :
          /\ env[name] # v
          /\ env' = [env EXCEPT ![name] = v]
    /\ UNCHANGED <<config, adapter, token, callArgs, client, request, netCalls,
                   extractLog, outcome, envAtInit, invocations, embVars>>

\* the caller stores another credential in config.azure_kwargs.api_key
SetAzureApiKey ==
    /\ \E k \in ApiKeys :
          /\ config.azure_kwargs.api_key # k
          /\ config' = [config EXCEPT !.azure_kwargs.api_key = k]
    /\ UNCHANGED <<env, adapter, token, callArgs, client, request, netCalls,
                   extractLog, outcome, envAtInit, invocations, embVars>>

----------------------------------------------------------------------------
(* Inputs *)

Roles == {"user", "assistant"}

Frags == {Assistant, <<"a", "s", "s">>, Ai}

\* texts made of at most n fragments
RECURSIVE ContentsUpTo(_)
ContentsUpTo(n) ==
    IF n = 0 THEN {<<>>}
    ELSE LET shorter == ContentsUpTo(n - 1)
         IN  shorter \cup {c \o f : c \in shorter, f \in Frags}

\* a user turn of any text, or an assistant turn that says "assistant"
Messages ==
    [role : {"user"}, content : ContentsUpTo(MaxFrags)]
        \cup [role : Roles \ {"user"}, content : {Assistant}]

\* the sequences over S of length at most n
RECURSIVE SeqsUpTo(_, _)
SeqsUpTo(S, n) ==
    IF n = 0 THEN {<<>>}
    ELSE LET shorter == SeqsUpTo(S, n - 1)
         IN  shorter \cup {Append(q, x) : q \in shorter, x \in S}

\* the turns before the last one: some say "assistant"
EarlierMessages ==
    {[role |-> "user", content |-> Assistant],
     [role |-> "assistant", content |-> Assistant],
     [role |-> "assistant", content |-> <<"o", "k">>]}

\* a conversation: at most MaxMsgs turns, the last one being any message
MessageLists ==
    {Append(earlier, last) : earlier \in SeqsUpTo(EarlierMessages, MaxMsgs - 1),
                             last \in Messages}

OneMessage == <<[role |-> "user", content |-> <<"h", "i", " ">> \o Assistant]>>

ToolLists == {NoList, List(<<>>), List(<<"tool_a">>), List(<<"tool_a", "tool_b">>)}

ToolChoices == {"auto", "required"}

ResponseFormats == {None, "", "json_object"}

\* f is called with any argument text, g with valid JSON
ToolCall ==
    [name : {"f"}, arguments : ArgTexts]
        \cup [name : {"g"}, arguments : {[form |-> "valid", val |-> "j2"]}]

VendorErrors == {"RateLimitError", "AuthenticationError"}

Answer(content, tool_calls) ==
    [raises |-> None, content |-> content, tool_calls |-> tool_calls]

Failure(error) == [raises |-> error, content |-> None, tool_calls |-> NoList]

\* what the vendor may answer: an error, or a first choice with a content
\* and an optional list of tool calls
VendorAnswers ==
    {Failure(e) : e \in VendorErrors}
        \cup {Answer(c, NoList) : c \in {None, "text"}}
        \cup {Answer("text", List(<<>>))}
        \cup {Answer(None, List(q)) : q \in SeqsUpTo(ToolCall, MaxToolCalls)}

PlainAnswer == Answer("text", NoList)

AzureKwargs(api_key, deployment, endpoint, version, headers) ==
    [api_key |-> api_key, azure_deployment |-> deployment,
     azure_endpoint |-> endpoint, api_version |-> version,
     default_headers |-> headers]

LlmConfig(model, sampling, http_client, azure_kwargs) ==
    [model |-> model, temperature |-> sampling.temperature,
     max_tokens |-> sampling.max_tokens, top_p |-> sampling.top_p,
     http_client |-> http_client, azure_kwargs |-> azure_kwargs]

\* temperature and top_p in tenths
SamplingDefault == [temperature |-> 1, max_tokens |-> 2000, top_p |-> 1]

Samplings == [temperature : {1, 7}, max_tokens : {100, 2000}, top_p : {1, 9}]

FixedAzure == AzureKwargs(Str("k1"), "dep", "https://end", "2024-02-01", None)

FixedConfig == LlmConfig("gpt-4o", SamplingDefault, None, FixedAzure)

EnvUnset == [name \in EnvNames |-> None]

NoClient == [azure_deployment |-> None, azure_endpoint |-> None,
             api_version |-> None, api_key |-> PyNone, http_client |-> None,
             default_headers |-> None]

NoArgs == [messages |-> <<>>, response_format |-> None, tools |-> NoList,
           tool_choice |-> "auto", vendor |-> PlainAnswer]

FixedEmbedder == EmbedderConfig(None, PyNone, None)

\* nothing has been called yet
Fresh ==
    /\ adapter = NotConstructed
    /\ token = "tokA"
    /\ callArgs = NoArgs
    /\ client = NoClient
    /\ request = <<>>
    /\ netCalls = 0
    /\ extractLog = <<>>
    /\ outcome = [kind |-> "none"]
    /\ envAtInit = EnvUnset
    /\ invocations = 0
    /\ produced = <<>>
    /\ returned = <<>>

----------------------------------------------------------------------------
(* Connection context, credentials and environment *)

\* configurations with each connection setting unset, empty or explicit
ConnConfigs ==
    {LlmConfig(None, SamplingDefault, None,
               AzureKwargs(PyNone, None, None, None, None)),
     LlmConfig("o1", SamplingDefault, "httpx.Client(proxy)",
               AzureKwargs(PyNone, "dep", "https://end", "2024-02-01", "headers")),
     LlmConfig("", SamplingDefault, "httpx.Client(proxy)",
               AzureKwargs(PyNone, "", "https://end", None, None)),
     LlmConfig("gpt-4", SamplingDefault, None,
               AzureKwargs(PyNone, "dep", None, "", "headers"))}

Init ==
    /\ config \in ConnConfigs
    /\ env = EnvUnset
    /\ embedder = FixedEmbedder
    /\ Fresh

Call ==
    \E vendor \in {PlainAnswer, Failure("RateLimitError")} :
        generate_response(OneMessage, None, NoList, "auto", vendor)

Next == Construct \/ Call \/ SetEnv \/ SetAzureApiKey \/ RotateToken

Spec == Init /\ [][Next]_vars

\* a generate_response invocation is the step that counts one
IsCall == invocations' = invocations + 1

\* AzureOpenAILLM.__init__ is the step that makes the adapter
IsConstruct == ~adapter.constructed /\ adapter'.constructed

\* the string the configured credential yields now: the explicit
\* azure_kwargs.api_key, a callable being invoked, else the environment's key
CredentialNow ==
    LET k == OrKey(config.azure_kwargs.api_key,
                   getenvKey(env, "LLM_AZURE_OPENAI_API_KEY"))
    IN  IF k.kind = "callable" THEN Str(token) ELSE k

\* C1: the client of every generate_response call carries the value the
\* configured credential (literal or callable) yields at that call.
C1_ClientCarriesCurrentCredential ==
    [][IsCall => client'.api_key = CredentialNow]_vars

\* the client AzureOpenAILLM would build from the configuration and the
\* environment as it was at construction, nothing being read later
ClientAsConstructed ==
    [azure_deployment |-> Or(config.azure_kwargs.azure_deployment,
                             getenv(envAtInit, "LLM_AZURE_DEPLOYMENT")),
     azure_endpoint |-> Or(config.azure_kwargs.azure_endpoint,
                           getenv(envAtInit, "LLM_AZURE_ENDPOINT")),
     api_version |-> Or(config.azure_kwargs.api_version,
                        getenv(envAtInit, "LLM_AZURE_API_VERSION")),
     api_key |-> OrKey(config.azure_kwargs.api_key,
                       getenvKey(envAtInit, "LLM_AZURE_OPENAI_API_KEY")),
     http_client |-> config.http_client,
     default_headers |-> config.azure_kwargs.default_headers]

\* C8 as stated: every setting of a call's client, the API key included, is
\* the explicit value or else the environment as read at construction.
C8_NoEnvironmentReadAtCallTime ==
    [][IsCall => client' = ClientAsConstructed]_vars

\* C8: deployment, endpoint and API version of every call's client are the
\* explicit configuration value when set (non-empty), else the environment
\* variable as it was at construction; the API key is the explicit
\* azure_kwargs.api_key when set, else LLM_AZURE_OPENAI_API_KEY as it is at
\* the call.
C8_ConnectionFixedAtConstruction ==
    [][IsCall =>
        /\ client'.azure_deployment = ClientAsConstructed.azure_deployment
        /\ client'.azure_endpoint = ClientAsConstructed.azure_endpoint
        /\ client'.api_version = ClientAsConstructed.api_version
        /\ client'.api_key = OrKey(config.azure_kwargs.api_key,
                                   getenvKey(env, "LLM_AZURE_OPENAI_API_KEY"))
        /\ request'.model = config.model]_vars

\* a call made after the environment changed: the key is read from the
\* environment of the call, the deployment is still the one of construction
C8_Witness ==
    /\ invocations > 0
    /\ envAtInit["LLM_AZURE_OPENAI_API_KEY"] = None
    /\ client.api_key = Str("from-env")
    /\ envAtInit["LLM_AZURE_DEPLOYMENT"] = "from-env"
    /\ env["LLM_AZURE_DEPLOYMENT"] = None
    /\ config.azure_kwargs.azure_deployment = ""
    /\ client.azure_deployment = "from-env"

\* C10: a generate_response call changes neither the configuration nor the
\* adapter's connection context and its client uses the configuration's
\* transport handle; construction writes the configuration only to set an
\* unset model to "gpt-4o"; nothing else the adapter does touches either.
C10_CallsLeaveConfigurationAlone ==
    [][/\ IsCall => /\ config' = config
                    /\ adapter' = adapter
                    /\ client'.http_client = config.http_client
                    /\ client'.http_client = adapter._http_client
       /\ IsConstruct =>
             config' = [config EXCEPT !.model = IF config.model \in {None, ""}
                                               THEN "gpt-4o" ELSE config.model]
       /\ adapter.constructed => adapter' = adapter]_vars

\* both calls were made, the last one failed, on a configuration with a
\* transport handle whose model was defaulted at construction
C10_Witness ==
    /\ invocations = MaxCalls
    /\ outcome.kind = "raise"
    /\ config.model = "gpt-4o"
    /\ config.http_client # None
    /\ client.http_client = config.http_client

----------------------------------------------------------------------------
(* The credential resolver of BaseEmbedderConfig *)

EmbedderConfigs ==
    {EmbedderConfig(m, k, p) : m \in {None, "text-embedding-3-small"},
                               k \in ApiKeys, p \in {None, "http://proxy"}}

InitKey ==
    /\ config = FixedConfig
    /\ env = EnvUnset
    /\ embedder \in EmbedderConfigs
    /\ Fresh

NextKey == GetApiKey \/ RotateToken

SpecKey == InitKey /\ [][NextKey]_vars

\* C2: with a callable api_key, the k-th get_api_key() returns the value the
\* callable produced at the k-th call, one invocation per call; the value
\* returned by a call is the token current at that call.
C2_KthKeyIsKthProduced ==
    [][(Len(returned') = Len(returned) + 1 /\ embedder.api_key.kind = "callable")
        => /\ Len(produced') = Len(produced) + 1
           /\ Len(produced') = Len(returned')
           /\ Last(returned') = token
           /\ \A k \in 1..Len(returned) : returned'[k] = returned[k]]_vars

\* two resolutions through the callable returned different keys
C2_Witness ==
    /\ embedder.api_key.kind = "callable"
    /\ Len(returned) >= 2
    /\ returned[1] # returned[2]
    /\ returned[2] = token

----------------------------------------------------------------------------
(* The request parameters *)

Models == {None, "gpt-4o", "o1-mini", "o3-mini", "o1-preview", "o1"}

InitParams ==
    /\ config \in {LlmConfig(m, sp, None, FixedAzure) : m \in Models, sp \in Samplings}
    /\ env = EnvUnset
    /\ embedder = FixedEmbedder
    /\ Fresh

CallParams ==
    \E response_format \in ResponseFormats, tools \in ToolLists,
       tool_choice \in ToolChoices :
        generate_response(OneMessage, response_format, tools, tool_choice, PlainAnswer)

NextParams == Construct \/ CallParams

SpecParams == InitParams /\ [][NextParams]_vars

SamplingKeys == {"temperature", "max_tokens", "top_p"}

\* C3: the request of a call on a reasoning model (o3-mini, o1-preview, o1)
\* has none of temperature, max_tokens, top_p; on any other model it has all
\* three, with the configuration's values.
C3_SamplingControls ==
    invocations > 0 =>
        IF config.model \in {"o3-mini", "o1-preview", "o1"}
        THEN DOMAIN request \cap SamplingKeys = {}
        ELSE /\ SamplingKeys \subseteq DOMAIN request
             /\ request.temperature = config.temperature
             /\ request.max_tokens = config.max_tokens
             /\ request.top_p = config.top_p

\* a call on o1-mini, which is no reasoning identifier, carried the controls
C3_Witness ==
    /\ invocations > 0
    /\ config.model = "o1-mini"
    /\ request.model = "o1-mini"
    /\ request.temperature = 7
    /\ request.max_tokens = 100

\* C4: the request has neither tools nor tool_choice when tools is None or
\* empty, and has both, equal to the arguments, when tools is non-empty.
C4_ToolsPassThrough ==
    invocations > 0 =>
        IF callArgs.tools.some /\ callArgs.tools.v # <<>>
        THEN /\ {"tools", "tool_choice"} \subseteq DOMAIN request
             /\ request.tools = callArgs.tools.v
             /\ request.tool_choice = callArgs.tool_choice
        ELSE DOMAIN request \cap {"tools", "tool_choice"} = {}

\* a call with two tools and a tool choice other than the default
C4_Witness ==
    /\ invocations > 0
    /\ callArgs.tools = List(<<"tool_a", "tool_b">>)
    /\ callArgs.tool_choice = "required"
    /\ request.tools = <<"tool_a", "tool_b">>
    /\ request.tool_choice = "required"

----------------------------------------------------------------------------
(* The last-message substitution *)

InitMsg ==
    /\ config = FixedConfig
    /\ env = EnvUnset
    /\ embedder = FixedEmbedder
    /\ Fresh

CallMsg ==
    \E messages \in MessageLists :
        generate_response(messages, None, NoList, "auto", PlainAnswer)

NextMsg == Construct \/ CallMsg

SpecMsg == InitMsg /\ [][NextMsg]_vars

\* the positions of s where "assistant" starts
Occurrences(s) == {i \in 1..Len(s) : StartsWithAt(s, i, Assistant)}

\* out is s with each occurrence of "assistant" replaced by "ai": a character
\* outside the occurrences is kept, moved left by 7 for each occurrence
\* before it, and each occurrence leaves "ai" at its moved start
IsSubstituted(s, out) ==
    LET occ == Occurrences(s)
        Shift(j) == 7 * Cardinality({p \in occ : p < j})
    IN  /\ Len(out) = Len(s) - 7 * Cardinality(occ)
        /\ \A j \in 1..Len(s) :
              IF \E p \in occ : p <= j /\ j < p + 9
              THEN j \in occ => /\ out[j - Shift(j)] = "a"
                                /\ out[j - Shift(j) + 1] = "i"
              ELSE out[j - Shift(j)] = s[j]

\* C7: in the request the last message's content is the caller's with every
\* "assistant" replaced by "ai", its role and every earlier message are as
\* the caller supplied them.
C7_LastMessageOnly ==
    invocations > 0 =>
        LET supplied == callArgs.messages
            sent == request.messages
            n == Len(supplied)
        IN  /\ Len(sent) = n
            /\ \A i \in 1..(n - 1) : sent[i] = supplied[i]
            /\ sent[n].role = supplied[n].role
            /\ IsSubstituted(supplied[n].content, sent[n].content)

\* an earlier message holding "assistant" went out untouched while the last
\* one, holding it twice, went out with "ai" twice
C7_Witness ==
    /\ invocations > 0
    /\ Len(callArgs.messages) = 2
    /\ callArgs.messages[1].content = Assistant
    /\ request.messages[1].content = Assistant
    /\ callArgs.messages[2].content = Assistant \o Assistant
    /\ request.messages[2].content = Ai \o Ai

----------------------------------------------------------------------------
(* The vendor call and the response normalizer *)

InitParse ==
    /\ config = FixedConfig
    /\ env = EnvUnset
    /\ embedder = FixedEmbedder
    /\ Fresh

CallParse ==
    \E tools \in {NoList, List(<<"tool_a">>)}, vendor \in VendorAnswers :
        generate_response(OneMessage, None, tools, "auto", vendor)

NextParse == Construct \/ CallParse

SpecParse == InitParse /\ [][NextParse]_vars

\* the tool calls the vendor reported
Reported == IF callArgs.vendor.tool_calls.some THEN callArgs.vendor.tool_calls.v ELSE <<>>

\* C5: a result returned for a call with tools has a tool_calls sequence
\* with one entry per reported tool call, in the reported order, carrying
\* the call's function name and the parsed JSON of its argument text (of the
\* repaired text when the text itself is no JSON).
C5_ToolCallsInOrder ==
    (invocations > 0 /\ TruthyList(callArgs.tools) /\ outcome.kind = "return") =>
        /\ "tool_calls" \in DOMAIN outcome
        /\ Len(outcome.tool_calls) = Len(Reported)
        /\ \A i \in 1..Len(Reported) :
              /\ outcome.tool_calls[i].name = Reported[i].name
              /\ outcome.tool_calls[i].arguments =
                    json_loads(IF Parses(Reported[i].arguments)
                               THEN Reported[i].arguments
                               ELSE extract_json(Reported[i].arguments))

\* two tool calls with different names and arguments came back in order
C5_Witness ==
    /\ invocations > 0
    /\ TruthyList(callArgs.tools)
    /\ outcome.kind = "return"
    /\ Len(Reported) = 2
    /\ Reported[1].name = "g" /\ Reported[2].name = "f"
    /\ Reported[1].arguments = [form |-> "valid", val |-> "j2"]
    /\ Reported[2].arguments = [form |-> "valid", val |-> "j1"]
    /\ outcome.tool_calls = <<[name |-> "g", arguments |-> [object |-> "j2"]],
                              [name |-> "f", arguments |-> [object |-> "j1"]]>>

\* C6: extract_json is handed only texts whose direct parse failed, each at
\* most once, and a tool call whose repaired text does not parse either ends
\* the call with a ResponseParsingError.
C6_RepairOnlyAfterFailedParse ==
    invocations > 0 =>
        /\ \A i \in 1..Len(extractLog) : ~Parses(extractLog[i])
        /\ Len(extractLog) <= Len(Reported)
        /\ (/\ callArgs.vendor.raises = None
            /\ TruthyList(callArgs.tools)
            /\ \E i \in 1..Len(Reported) : ~Parses(extract_json(Reported[i].arguments)))
           => (outcome.kind = "raise" /\ outcome.error = "ResponseParsingError")

\* C9: an invocation issues exactly one vendor call, and when the vendor
\* raises it ends with the vendor's error.
C9_OneVendorCall ==
    invocations > 0 =>
        /\ netCalls = 1
        /\ callArgs.vendor.raises # None =>
              (outcome.kind = "raise" /\ outcome.error = callArgs.vendor.raises)
        /\ outcome.kind = "raise" =>
              outcome.error \in {callArgs.vendor.raises, "JSONDecodeError"}

\* the vendor raised and the invocation ended with that error after one call
C9_Witness ==
    /\ invocations > 0
    /\ callArgs.vendor.raises = "RateLimitError"
    /\ netCalls = 1
    /\ outcome = [kind |-> "raise", error |-> "RateLimitError"]

====
